---- MODULE Spec2Model ----
(***************************************************************************)
(* Banking transaction generator (src/api.py): the transaction synthesis   *)
(* engine with its per-account activity tracker, and the delivery shell    *)
(* (configuration, /stream loops, /start and /stop) that drives it.        *)
(* The generator of src/generate_banking_csv.py is the same engine, with   *)
(* the rate read from the generator instead of current_config and with    *)
(* fraud labels on its records.  src/kinesis_producer.py is the relay      *)
(* that fetches batches from the API and publishes them to the stream.     *)
(*                                                                         *)
(* Spec        the engine called again and again while time passes         *)
(* SpecConfig  the engine called again and again while the fraud           *)
(*             injection rate is reconfigured                              *)
(* SpecShell   the HTTP handlers on their one event loop                   *)
(* SpecExport  the loop of generate_csv_file                               *)
(* SpecRelay   the loop of the relay's start_streaming                     *)
(*                                                                         *)
(* Units.  Instants are whole seconds of time.time().  Money is in whole    *)
(* VND; transaction_fees_vnd is an exact fraction [num, den] of a VND, so  *)
(* that the 0.1% and 5% fee rules lose nothing.  random.random(),          *)
(* fraud_injection_rate and frequency_seconds are held in hundredths       *)
(* (0.05 is 5, 1.0 is 100).                                                *)
(***************************************************************************)
EXTENDS Integers, Sequences, FiniteSets, TLC

VARIABLES
    clock,                \* the value time.time() returns now
    transaction_counter,  \* generator.transaction_counter
    recent_activity,      \* generator.recent_activity: account -> list of instants
    current_config,       \* the global current_config
    is_streaming,         \* the global is_streaming
    issued,               \* observer: transaction_id of every record returned, in call order
    last,                 \* observer: the record the latest generate_transaction returned
    call,                 \* observer: the latest _update_account_activity call
    streams,              \* one /stream response generator per connection
    packet,               \* observer: the latest response a handler produced
    row,                  \* observer: the latest row generate_csv_file wrote
    relay,                \* the locals of the relay's start_streaming
    publish,              \* observer: the put_records call of the relay's current pass
    accepted              \* the external stream: how many records it has accepted

vars == <<clock, transaction_counter, recent_activity, current_config,
          is_streaming, issued, last, call, streams, packet, row, relay, publish,
          accepted>>

\* the state of the two programs beside the API: the export script and the relay
others == <<row, relay, publish, accepted>>

-----------------------------------------------------------------------------
(* Bounds of the model *)

\* generate_transaction is called at most this many times in one behaviour
MaxCalls == 2

\* time.time() does not advance beyond this instant
MaxTime == 301

\* the handlers of the delivery shell call generate_transaction at most this often
MaxShellCalls == 3

\* the batch cycles of a /stream loop are followed for this many cycles after a
\* stop request has reached it
MaxCycles == 2

\* the relay publishes at most this many batches with success in one behaviour
MaxRelayBatches == 2

-----------------------------------------------------------------------------
(* Program constants *)

\* window_start = current_time - 300
Window == 300

\* random.randint(15, 25) synthetic instants for money laundering
MlBurstMin == 15
MlBurstMax == 25

\* random.randint(12, 20) synthetic instants for fee manipulation
FmBurstMin == 12
FmBurstMax == 20

\* f"TXN_{self.transaction_counter:08d}"
IdWidth == 8

\* the most records one GET /transactions/{count} may ask for
BatchLimit == 1000

\* two accounts of account_pool (ACC_001000 .. ACC_004999)
Accounts == {"ACC_001000", "ACC_001001"}

FraudTypes == {"money_laundering", "account_takeover", "loan_fraud", "fee_manipulation"}

\* values of random.random(), in hundredths: a float in [0.0, 1.0)
UValues == {0, 4, 5, 99}

\* values of random.randint(1, 300), both ends included
JitterValues == {1, Window}

\* how far time.time() moves between two requests
TickSteps == {Window - 1, Window, Window + 1}

\* StreamConfig(): frequency_seconds 1.0, fraud_injection_rate 0.05, batch_size 1
DefaultConfig == [frequency_seconds |-> 100, fraud_injection_rate |-> 5, batch_size |-> 1]

-----------------------------------------------------------------------------
(* Sampling: the values a distribution can return, a few of each *)

\* random.uniform(a, b) is a + (b - a) * random.random(): it reaches a, and in
\* double arithmetic stays below b for every range the generator uses
Uniform(a, b) == {a, (a + b) \div 2, b - 1}

\* np.random.lognormal(mean, sigma): any positive real
Lognormal == {1, 490000}

Max(a, b) == IF a >= b THEN a ELSE b

\* max(10000, lognormal(13.8, 1.2))
NormalAmounts == {Max(10000, x) : x \in Lognormal}

\* max(0, lognormal(...)) of total_deposits_vnd
DepositValues == {Max(0, x) : x \in Lognormal}

-----------------------------------------------------------------------------
(* transaction_id *)

RECURSIVE Digits(_)
\* the decimal digits of n, most significant first
Digits(n) == IF n < 10 THEN <<n>> ELSE Append(Digits(n \div 10), n % 10)

RECURSIVE ZeroPad(_, _)
ZeroPad(s, width) == IF Len(s) >= width THEN s ELSE ZeroPad(<<0>> \o s, width)

\* f"TXN_{n:08d}": the digits after the TXN_ prefix
FormatId(n) == ZeroPad(Digits(n), IdWidth)

RECURSIVE ParseId(_)
\* the number a transaction_id carries
ParseId(s) == IF Len(s) = 0 THEN 0
              ELSE 10 * ParseId(SubSeq(s, 1, Len(s) - 1)) + s[Len(s)]

-----------------------------------------------------------------------------
(* Account activity tracker *)

\* self.recent_activity.get(account_id, [])
Activity(ra, acct) == IF acct \in DOMAIN ra THEN ra[acct] ELSE <<>>

\* a tracker that keeps the instant lying exactly on the window's edge
KeepInclusive(list, window_start) == SelectSeq(list, LAMBDA t : t >= window_start)

\* [t for t in self.recent_activity[account_id] if t > window_start]
Keep(list, window_start) == SelectSeq(list, LAMBDA t : t > window_start)

\* a map rebuilt around the one account that was touched
SetActivityAlone(ra, acct, list) == [a \in {acct} |-> list]

\* self.recent_activity[account_id] = ...: the other entries stay as they are
SetActivity(ra, acct, list) ==
    [a \in DOMAIN ra \cup {acct} |-> IF a = acct THEN list ELSE ra[a]]

\* a tracker that counts before it records the current instant
UpdateNoAppend(ra, acct, now) ==
    LET kept == Keep(Activity(ra, acct), now - Window)
    IN  [ra |-> SetActivity(ra, acct, kept), count |-> Len(kept)]

\* _update_account_activity: prune, append the current instant, return the length
UpdateAccountActivity(ra, acct, now) ==
    LET kept == Keep(Activity(ra, acct), now - Window)
        list == Append(kept, now)
    IN  [ra |-> SetActivity(ra, acct, list), count |-> Len(list)]

\* a burst dated after the call instead of before it
SyntheticBurstAhead(ra, acct, now, jitters) ==
    SetActivity(ra, acct,
                Activity(ra, acct) \o [i \in 1..Len(jitters) |-> now + jitters[i]])

\* for _ in range(n): recent_activity.setdefault(acct, []).append(time.time() - randint(1, 300))
SyntheticBurst(ra, acct, now, jitters) ==
    SetActivity(ra, acct,
                Activity(ra, acct) \o [i \in 1..Len(jitters) |-> now - jitters[i]])

\* the draws of one burst of random.randint(lo, hi) instants: n jitters, the
\* first at either end of randint(1, 300), the others the smallest
JitterSeqs(lo, hi) ==
    {[i \in 1..n |-> IF i = 1 THEN j ELSE 1] : n \in {lo, hi}, j \in JitterValues}

-----------------------------------------------------------------------------
(* Archetype samplers: what each draws *)

\* an archetype without a burst draws no jitter
NoJitters == {<<>>}

\* The draws of each sampler that the tracker, the fee rules and the id depend
\* on: the account, the burst's jitters, the amount and the deposits.  The fee
\* manipulation amount and the normal amount and deposits range over their
\* distribution's ends; the other amounts and deposits are one value of their
\* distribution (the low end of random.uniform, a lognormal value).
DrawsOf(arch) ==
    CASE arch = "normal" ->
           [account : Accounts, jitters : NoJitters,
            amount : NormalAmounts, deposits : DepositValues]
      [] arch = "money_laundering" ->
           [account : Accounts, jitters : JitterSeqs(MlBurstMin, MlBurstMax),
            amount : {300000000}, deposits : {490000}]
      [] arch = "account_takeover" ->
           [account : Accounts, jitters : NoJitters,
            amount : {50000000}, deposits : {490000}]
      [] arch = "loan_fraud" ->
           [account : Accounts, jitters : NoJitters,
            amount : {100000000}, deposits : {1}]
      [] arch = "fee_manipulation" ->
           [account : Accounts, jitters : JitterSeqs(FmBurstMin, FmBurstMax),
            amount : Uniform(10000, 100000), deposits : {490000}]

\* small_amount * 0.05 for fee manipulation, transaction_fees_vnd=0 for the others
ArchetypeFee(arch, amount) ==
    IF arch = "fee_manipulation" THEN [num |-> amount * 5, den |-> 100]
                                 ELSE [num |-> 0, den |-> 1]

\* One sampler call: the burst (if the archetype has one), the tracker call and
\* the record it builds.  d holds the sampler's draws.  Every time.time() of the
\* call returns the same instant `now`: the call does not wait, and the clock
\* moving on between the burst and the tracker call could only prune more.
\* The record holds the fields that depend on the engine's state or on each
\* other; the remaining fields of Transaction are draws nothing else reads.
Sample(arch, d, ra, counter, now) ==
    LET burst == IF Len(d.jitters) > 0
                 THEN SyntheticBurst(ra, d.account, now, d.jitters)
                 ELSE ra
        upd   == UpdateAccountActivity(burst, d.account, now)
    IN  [ra     |-> upd.ra,
         before |-> Activity(burst, d.account),
         record |-> [transaction_id             |-> FormatId(counter),
                     account_id                 |-> d.account,
                     transaction_amount_vnd     |-> d.amount,
                     transaction_frequency_5min |-> upd.count,
                     total_deposits_vnd         |-> d.deposits,
                     transaction_fees_vnd       |-> ArchetypeFee(arch, d.amount)]]

-----------------------------------------------------------------------------
(* Transaction synthesis engine *)

\* a selection that compares with <=
IsFraudDrawInclusive(u, rate) == u <= rate

\* random.random() < current_config.fraud_injection_rate
IsFraudDraw(u, rate) == u < rate

\* the archetype generate_transaction selects
Selected(u, fraud_type, rate) == IF IsFraudDraw(u, rate) THEN fraud_type ELSE "normal"

\* transaction.total_deposits_vnd * 0.001
FeeOfDeposits(deposits) == [num |-> deposits, den |-> 1000]

\* a finalizer that leaves the fee as the sampler set it
FinalizeFeeNever(record) == record

\* a finalizer that replaces the fee whatever the sampler set
FinalizeFeeAlways(record) ==
    [record EXCEPT !.transaction_fees_vnd = FeeOfDeposits(record.total_deposits_vnd)]

\* if transaction.transaction_fees_vnd == 0: the fee becomes 0.1% of the deposits
FinalizeFee(record) ==
    IF record.transaction_fees_vnd.num = 0
    THEN [record EXCEPT !.transaction_fees_vnd = FeeOfDeposits(record.total_deposits_vnd)]
    ELSE record

\* a counter that advances only from odd values
NextCounterSkipping(counter) == IF counter % 2 = 1 THEN counter + 1 ELSE counter

\* self.transaction_counter += 1
NextCounter(counter) == counter + 1

\* every way one generate_transaction call can draw under the given rate: the
\* archetype its first two draws select, and that archetype's sampler draws
Picks(rate) ==
    UNION {{[arch |-> arch, d |-> d] : d \in DrawsOf(arch)} :
             arch \in {Selected(u, ft, rate) : u \in UValues, ft \in FraudTypes}}

\* The generator's state and what the observers hold of its latest call
Engine == [counter |-> transaction_counter, ra |-> recent_activity,
           issued |-> issued, last |-> last, call |-> call]

\* generate_transaction: select the archetype, sample, finalize the fee, advance
\* the counter, return the record
GenerateTransaction(e, cfg, now, p) ==
    LET arch == p.arch
        s    == Sample(arch, p.d, e.ra, e.counter, now)
        rec  == FinalizeFee(s.record)
    IN  [counter |-> NextCounter(e.counter),
         ra      |-> s.ra,
         issued  |-> Append(e.issued, rec.transaction_id),
         last    |-> [record |-> rec, archetype |-> arch,
                      rate |-> cfg.fraud_injection_rate,
                      fresh |-> Activity(e.ra, p.d.account) = <<>>],
         call    |-> [account |-> p.d.account, before |-> s.before, now |-> now,
                      count |-> rec.transaction_frequency_5min]]

SetEngine(e) ==
    /\ transaction_counter' = e.counter
    /\ recent_activity' = e.ra
    /\ issued' = e.issued
    /\ last' = e.last
    /\ call' = e.call

-----------------------------------------------------------------------------
(* The export generator's labels (src/generate_banking_csv.py) *)

\* the record the observers hold before the first call
NoRecord == [transaction_id |-> <<>>, account_id |-> "", transaction_amount_vnd |-> 0,
             transaction_frequency_5min |-> 0, total_deposits_vnd |-> 0,
             transaction_fees_vnd |-> [num |-> 0, den |-> 1]]

\* Python's None, and the truth value the conditional expression of to_dict tests
None == "None"

Truthy(v) == v # None /\ v # ""

\* self.fraud_injection_rate = 0.05, in hundredths
ExportRate == 5

ExportConfig == [DefaultConfig EXCEPT !.fraud_injection_rate = ExportRate]

\* samplers of which one was copied from another with its label
LabelsCopied(arch) ==
    CASE arch = "normal"      -> [is_fraud |-> FALSE, fraud_type |-> None]
      [] arch = "loan_fraud"  -> [is_fraud |-> TRUE, fraud_type |-> "account_takeover"]
      [] OTHER                -> [is_fraud |-> TRUE, fraud_type |-> arch]

\* is_fraud=..., fraud_type=... as each sampler passes them to Transaction(...)
Labels(arch) ==
    CASE arch = "normal" ->
           [is_fraud |-> FALSE, fraud_type |-> None]
      [] arch = "money_laundering" ->
           [is_fraud |-> TRUE, fraud_type |-> "money_laundering"]
      [] arch = "account_takeover" ->
           [is_fraud |-> TRUE, fraud_type |-> "account_takeover"]
      [] arch = "loan_fraud" ->
           [is_fraud |-> TRUE, fraud_type |-> "loan_fraud"]
      [] arch = "fee_manipulation" ->
           [is_fraud |-> TRUE, fraud_type |-> "fee_manipulation"]

\* Transaction.to_dict: the fields as they are, fraud_type None written "normal"
ToDict(record, labels) ==
    [transaction_id |-> record.transaction_id,
     account_id     |-> record.account_id,
     is_fraud       |-> labels.is_fraud,
     fraud_type     |-> IF Truthy(labels.fraud_type) THEN labels.fraud_type
                        ELSE "normal"]

NoRow == [is_fraud |-> FALSE, fraud_type |-> None,
          written |-> ToDict(NoRecord, [is_fraud |-> FALSE, fraud_type |-> ""])]

-----------------------------------------------------------------------------
(* The relay (src/kinesis_producer.py): enrichment and publishing *)

\* 'high_amount_flag': transaction['transaction_amount_vnd'] > 300_000_000
HighAmount == 300000000

\* 'high_frequency_flag': transaction.get('transaction_frequency_5min', 0) > 10
HighFrequency == 10

\* transaction['transaction_hour'] in [1, 2, 3, 22, 23, 24]
OffHours == {1, 2, 3, 22, 23, 24}

\* Device ids are held as their parts between underscores: DEV_NEW_80000 is
\* <<"DEV", "NEW", "80000">>, a device of the pool is <<"DEV", "10000">>
PoolDevice == <<"DEV", "10000">>

NewDevice == <<"DEV", "NEW", "80000">>

\* the records the API hands to the relay: amounts, hours and frequencies on
\* both sides of each flag's threshold, with and without a new device
RelayRecords ==
    { [transaction_id |-> "TXN_00000001", account_id |-> "ACC_001000",
       transaction_amount_vnd |-> HighAmount, transaction_hour |-> 0,
       device_id |-> PoolDevice, transaction_frequency_5min |-> HighFrequency],
      [transaction_id |-> "TXN_00000002", account_id |-> "ACC_001001",
       transaction_amount_vnd |-> HighAmount + 1, transaction_hour |-> 24,
       device_id |-> PoolDevice, transaction_frequency_5min |-> HighFrequency + 1],
      [transaction_id |-> "TXN_00000003", account_id |-> "ACC_001000",
       transaction_amount_vnd |-> 50000000, transaction_hour |-> 22,
       device_id |-> NewDevice, transaction_frequency_5min |-> 1],
      [transaction_id |-> "TXN_00000004", account_id |-> "ACC_001001",
       transaction_amount_vnd |-> 100000000, transaction_hour |-> 4,
       device_id |-> NewDevice, transaction_frequency_5min |-> 1] }

\* transaction.get(key, default)
Get(t, key, default) == IF key \in DOMAIN t THEN t[key] ELSE default

\* 'DEV_NEW_' in device_id
HasNewDeviceMarker(device_id) ==
    \E i \in 1..Len(device_id) :
        /\ i + 2 <= Len(device_id)
        /\ device_id[i] = "DEV"
        /\ device_id[i + 1] = "NEW"

\* a flag that also takes the threshold amount itself
HighAmountFlagInclusive(t) == t.transaction_amount_vnd >= HighAmount

HighAmountFlag(t) == t.transaction_amount_vnd > HighAmount

OffHoursFlag(t) == t.transaction_hour \in OffHours

SuspiciousDeviceFlag(t) == HasNewDeviceMarker(Get(t, "device_id", <<>>))

HighFrequencyFlag(t) == Get(t, "transaction_frequency_5min", 0) > HighFrequency

\* the keys enrich_transaction writes
Metadata(t, now) ==
    [kinesis_timestamp      |-> now,
     source                 |-> "vpbank_transaction_api",
     region                 |-> "ap-southeast-1",
     stream_name            |-> "Transactions",
     high_amount_flag       |-> HighAmountFlag(t),
     off_hours_flag         |-> OffHoursFlag(t),
     suspicious_device_flag |-> SuspiciousDeviceFlag(t),
     high_frequency_flag    |-> HighFrequencyFlag(t)]

\* {**t, key: value, ...}: the keys of t, then the written keys over them
Merge(t, written) ==
    [k \in DOMAIN t \cup DOMAIN written |->
        IF k \in DOMAIN written THEN written[k] ELSE t[k]]

\* enrich_transaction
EnrichTransaction(t, now) == Merge(t, Metadata(t, now))

\* what put_records does: it raises, or it answers with FailedRecordCount
PutOutcomes(n) ==
    {[outcome |-> "raised", failed |-> 0]}
        \cup {[outcome |-> "answered", failed |-> f] : f \in 0..n}

\* a sender content with a batch of which nothing was published
SendSucceededLax(n, o) == o.outcome = "answered" /\ n - o.failed >= 0

\* return success_count > 0, and False when put_records raised
SendSucceeded(n, o) == o.outcome = "answered" /\ n - o.failed > 0

\* the Records send_batch_transactions builds
Records(transactions, now) ==
    [i \in 1..Len(transactions) |->
        [Data         |-> EnrichTransaction(transactions[i], now),
         PartitionKey |-> transactions[i].account_id]]

\* max_batches: None, or the integer given
NoMaxBatches == [given |-> FALSE, value |-> 0]

\* the truth value of max_batches in `if max_batches and ...`
Truth(m) == m.given /\ m.value # 0

\* if max_batches and batch_count >= max_batches
ReachedMax(r) == Truth(r.max_batches) /\ r.batch_count >= r.max_batches.value

RelayIdle == [pc |-> "idle", batch_count |-> 0, total_transactions |-> 0,
              max_batches |-> NoMaxBatches]

NoPublish == [sent |-> <<>>, records |-> <<>>, outcome |-> "none", failed |-> 0]

-----------------------------------------------------------------------------
(* Initial state *)

EngineInit ==
    /\ clock = 0
    /\ transaction_counter = 1
    /\ recent_activity = <<>>
    /\ current_config = DefaultConfig
    /\ is_streaming = FALSE
    /\ issued = <<>>
    /\ last = [record |-> NoRecord, archetype |-> "none", rate |-> 0, fresh |-> FALSE]
    /\ call = [account |-> "", before |-> <<>>, now |-> 0, count |-> 0]

NoPacket == [by |-> "none", config |-> DefaultConfig, rates |-> <<>>,
             asked |-> 0, status |-> 0]

\* the /stream connections of the model
Connections == {"c1", "c2"}

Init ==
    /\ EngineInit
    /\ streams = [c \in Connections |->
                    [pc |-> "idle", stopped |-> FALSE, after |-> 0]]
    /\ packet = NoPacket
    /\ row = NoRow
    /\ relay = RelayIdle
    /\ publish = NoPublish
    /\ accepted = 0

-----------------------------------------------------------------------------
(* The engine driven call by call: under Spec while time passes, under
   SpecConfig while the fraud injection rate is reconfigured *)

\* the rates POST /config sets between two calls
RateValues == {0, 5, 100}

\* one call of generator.generate_transaction()
Generate ==
    /\ transaction_counter <= MaxCalls
    /\ \E p \in Picks(current_config.fraud_injection_rate) :
          SetEngine(GenerateTransaction(Engine, current_config, clock, p))
    /\ UNCHANGED <<clock, current_config, is_streaming, streams, packet>>
    /\ UNCHANGED others

\* time passes between two calls
Tick ==
    /\ \E step \in TickSteps :
          /\ clock + step <= MaxTime
          /\ clock' = clock + step
    /\ UNCHANGED <<transaction_counter, recent_activity, current_config, is_streaming,
                   issued, last, call, streams, packet>>
    /\ UNCHANGED others

\* update_config: current_config = config
SetRate ==
    /\ \E rate \in RateValues :
          /\ rate # current_config.fraud_injection_rate
          /\ current_config' = [current_config EXCEPT !.fraud_injection_rate = rate]
    /\ UNCHANGED <<clock, transaction_counter, recent_activity, is_streaming,
                   issued, last, call, streams, packet>>
    /\ UNCHANGED others

Next == Generate \/ Tick

Spec == Init /\ [][Next]_vars

ConfigNext == Generate \/ SetRate

SpecConfig == Init /\ [][ConfigNext]_vars

-----------------------------------------------------------------------------
(* The delivery shell: the handlers of the FastAPI application.  All of them
   run on one event loop, so a handler runs without interruption from one
   await (or yield) to the next. *)

\* the request bodies of POST /config: the field values sent, in and out of the
\* documented ranges, and whether each value has the type of its field (the
\* last body's frequency_seconds is no number)
ConfigBodies ==
    { [typed |-> TRUE, values |-> DefaultConfig],
      [typed |-> TRUE, values |->
         [frequency_seconds |-> 100, fraud_injection_rate |-> 100, batch_size |-> 2]],
      [typed |-> TRUE, values |->
         [frequency_seconds |-> 0, fraud_injection_rate |-> 200, batch_size |-> -1]],
      [typed |-> FALSE, values |->
         [frequency_seconds |-> 0, fraud_injection_rate |-> 5, batch_size |-> 1]] }

\* class StreamConfig(BaseModel): two floats and an int, and no other constraint
IsStreamConfig(body) == body.typed

\* the draws the shell's generate_transaction calls make: one account, the
\* normal archetype and one fraud archetype
ShellPicks(rate) ==
    {p \in Picks(rate) : /\ p.arch \in {"normal", "account_takeover"}
                         /\ p.d.account = "ACC_001000"
                         /\ p.d.amount \in {10000, 50000000}
                         /\ p.d.deposits = 490000}

\* len(range(n))
RangeLen(n) == IF n > 0 THEN n ELSE 0

RECURSIVE GenerateManyStale(_, _, _, _)
\* calls that overlap: the next call reads the counter before this call's
\* increment has been stored
GenerateManyStale(e, cfg, now, picks) ==
    IF picks = <<>>
    THEN [e |-> e, rates |-> <<>>]
    ELSE LET g    == GenerateTransaction(e, cfg, now, Head(picks))
             rest == GenerateManyStale([g EXCEPT !.counter = e.counter], cfg, now,
                                       Tail(picks))
         IN  [e |-> [rest.e EXCEPT !.counter = g.counter],
              rates |-> <<g.last.rate>> \o rest.rates]

RECURSIVE GenerateMany(_, _, _, _)
\* for _ in range(n): transactions.append(generator.generate_transaction())
GenerateMany(e, cfg, now, picks) ==
    IF picks = <<>>
    THEN [e |-> e, rates |-> <<>>]
    ELSE LET g    == GenerateTransaction(e, cfg, now, Head(picks))
             rest == GenerateMany(g, cfg, now, Tail(picks))
         IN  [e |-> rest.e, rates |-> <<g.last.rate>> \o rest.rates]

\* the number of records one cycle of the stream loop generates
BatchCount(cfg) == RangeLen(cfg.batch_size)

\* a response without records: its handler, and its HTTP status
Reply(by, asked, status) ==
    [by |-> by, config |-> DefaultConfig, rates |-> <<>>,
     asked |-> asked, status |-> status]

\* One batch of n records by handler `by`, asked for `asked` records, generated
\* without an await in between and returned with status 200
Batch(by, asked, n) ==
    /\ transaction_counter + n <= MaxShellCalls + 1
    /\ \E picks \in [1..n -> ShellPicks(current_config.fraud_injection_rate)] :
          LET g == GenerateMany(Engine, current_config, clock, picks)
          IN  /\ SetEngine(g.e)
              /\ packet' = [by |-> by, config |-> current_config, rates |-> g.rates,
                            asked |-> asked, status |-> 200]

\* async def update_config(config: StreamConfig)
UpdateConfig ==
    /\ \E body \in ConfigBodies :
          IF IsStreamConfig(body)
          THEN current_config' = body.values
          ELSE current_config' = current_config
    /\ UNCHANGED <<clock, transaction_counter, recent_activity, is_streaming,
                   issued, last, call, streams, packet>>
    /\ UNCHANGED others

\* async def get_single_transaction()
GetSingleTransaction ==
    /\ transaction_counter <= MaxShellCalls
    /\ \E p \in ShellPicks(current_config.fraud_injection_rate) :
          SetEngine(GenerateTransaction(Engine, current_config, clock, p))
    /\ UNCHANGED <<clock, current_config, is_streaming, streams, packet>>
    /\ UNCHANGED others

\* the counts GET /transactions/{count} is asked for
BatchRequests == {0, 2, BatchLimit + 1}

\* if count > 1000: raise HTTPException(status_code=400, ...)
TooMany(count) == count > BatchLimit

\* a loop that stops one record short
RequestedCountShort(count) == RangeLen(count - 1)

\* for _ in range(count): the records get_transactions_batch generates
RequestedCount(count) == RangeLen(count)

\* async def get_transactions_batch(count)
GetTransactionsBatch ==
    /\ \E count \in BatchRequests :
          IF TooMany(count)
          THEN /\ packet' = Reply("transactions", count, 400)
               /\ UNCHANGED <<transaction_counter, recent_activity, issued, last,
                              call>>
          ELSE Batch("transactions", count, RequestedCount(count))
    /\ UNCHANGED <<clock, current_config, is_streaming, streams>>
    /\ UNCHANGED others

\* one pass of the body of `while is_streaming`, up to the yield
Cycle(c) ==
    /\ streams[c].after < MaxCycles
    /\ Batch("stream", current_config.batch_size, BatchCount(current_config))
    /\ streams' = [streams EXCEPT
                     ![c].pc = "waiting",
                     ![c].after = IF streams[c].stopped THEN @ + 1 ELSE @]

\* finally: is_streaming = False; the generator is over, `how` tells whether its
\* loop ended ("done") or it was closed at its yield ("closed")
Finish(c, how) ==
    /\ is_streaming' = FALSE
    /\ streams' = [streams EXCEPT ![c].pc = how]
    /\ UNCHANGED <<transaction_counter, recent_activity, issued, last, call, packet>>

\* generate_stream starts: is_streaming = True, then the first pass of the loop
StreamBegin(c) ==
    /\ streams[c].pc = "idle"
    /\ is_streaming' = TRUE
    /\ Cycle(c)
    /\ UNCHANGED <<clock, current_config>>
    /\ UNCHANGED others

\* the sleep is over: the loop tests is_streaming and runs another pass or ends
StreamWake(c) ==
    /\ streams[c].pc = "waiting"
    /\ IF is_streaming
       THEN Cycle(c) /\ UNCHANGED is_streaming
       ELSE Finish(c, "done")
    /\ UNCHANGED <<clock, current_config>>
    /\ UNCHANGED others

\* the client goes away while the generator is suspended: it is closed
StreamDisconnect(c) ==
    /\ streams[c].pc = "waiting"
    /\ Finish(c, "closed")
    /\ UNCHANGED <<clock, current_config>>
    /\ UNCHANGED others

\* a start_streaming that never looks at the flag
StartStreamingAlways ==
    /\ is_streaming' = TRUE
    /\ packet' = Reply("start", 0, 200)
    /\ UNCHANGED <<clock, transaction_counter, recent_activity, current_config,
                   issued, last, call, streams>>
    /\ UNCHANGED others

\* async def start_streaming()
StartStreaming ==
    /\ IF is_streaming
       THEN /\ UNCHANGED is_streaming
            /\ packet' = Reply("start", 0, 400)
       ELSE /\ is_streaming' = TRUE
            /\ packet' = Reply("start", 0, 200)
    /\ UNCHANGED <<clock, transaction_counter, recent_activity, current_config,
                   issued, last, call, streams>>
    /\ UNCHANGED others

\* async def stop_streaming(); each running loop notes that a stop was requested
StopStreaming ==
    /\ is_streaming' = FALSE
    /\ streams' = [c \in Connections |->
                     IF streams[c].pc = "waiting"
                     THEN [streams[c] EXCEPT !.stopped = TRUE]
                     ELSE streams[c]]
    /\ packet' = Reply("stop", 0, 200)
    /\ UNCHANGED <<clock, transaction_counter, recent_activity, current_config,
                   issued, last, call>>
    /\ UNCHANGED others

ShellNext ==
    \/ UpdateConfig
    \/ GetSingleTransaction
    \/ GetTransactionsBatch
    \/ \E c \in Connections : StreamBegin(c)
    \/ \E c \in Connections : StreamWake(c)
    \/ \E c \in Connections : StreamDisconnect(c)
    \/ StartStreaming
    \/ StopStreaming

SpecShell == Init /\ [][ShellNext]_vars

-----------------------------------------------------------------------------
(* The export script: generate_csv_file with its own generator *)

\* one pass of `for i in range(num_transactions)`: generate, writerow(to_dict())
ExportRow ==
    /\ transaction_counter <= MaxCalls
    /\ \E p \in Picks(ExportRate) :
          LET g      == GenerateTransaction(Engine, ExportConfig, clock, p)
              labels == Labels(p.arch)
          IN  /\ SetEngine(g)
              /\ row' = [is_fraud |-> labels.is_fraud,
                         fraud_type |-> labels.fraud_type,
                         written |-> ToDict(g.last.record, labels)]
    /\ UNCHANGED <<clock, current_config, is_streaming, streams, packet, relay,
                   publish, accepted>>

ExportNext == ExportRow \/ Tick

SpecExport == Init /\ [][ExportNext]_vars

-----------------------------------------------------------------------------
(* The relay: start_streaming(batch_size, interval_seconds, max_batches) *)

\* the API and the export script, which the relay does not touch
api == <<clock, transaction_counter, recent_activity, current_config,
         is_streaming, issued, last, call, streams, packet, row>>

\* the values of max_batches: None, and the integers up to the bound
MaxBatchesValues ==
    {NoMaxBatches} \cup {[given |-> TRUE, value |-> v] : v \in 0..MaxRelayBatches}

\* the batches GET /transactions/{batch_size} answers with
RelayBatches ==
    {<<t>> : t \in RelayRecords} \cup {<<t, u>> : t, u \in RelayRecords}

\* what the GET comes to: a request exception, a status other than 200, a body
\* that is no batch, no transactions, or a batch
ApiResponses ==
    {[kind |-> k, transactions |-> <<>>] :
        k \in {"refused", "error", "malformed", "empty"}}
        \cup {[kind |-> "batch", transactions |-> b] : b \in RelayBatches}

\* start_streaming up to the loop: test_connections, then the counters at 0
RelayStart ==
    /\ relay.pc = "idle"
    /\ \E m \in MaxBatchesValues, connected \in BOOLEAN :
          relay' = [pc |-> IF connected THEN "running" ELSE "done",
                    batch_count |-> 0, total_transactions |-> 0,
                    max_batches |-> m]
    /\ UNCHANGED <<publish, accepted, api>>

\* the records of a batch of n that the stream took in: none when put_records
\* raised, and otherwise all but the FailedRecordCount of its answer
Accepted(n, o) == IF o.outcome = "answered" THEN n - o.failed ELSE 0

\* if self.send_batch_transactions(transactions): batch_count += 1; ...
Publish(transactions) ==
    /\ \E o \in PutOutcomes(Len(transactions)) :
          /\ publish' = [sent |-> transactions,
                         records |-> Records(transactions, clock),
                         outcome |-> o.outcome, failed |-> o.failed]
          /\ accepted' = accepted + Accepted(Len(transactions), o)
          /\ IF SendSucceeded(Len(transactions), o)
             THEN /\ relay.batch_count < MaxRelayBatches
                  /\ relay' = [relay EXCEPT
                                 !.pc = "sleeping",
                                 !.batch_count = @ + 1,
                                 !.total_transactions = @ + Len(transactions)]
             ELSE relay' = [relay EXCEPT !.pc = "sleeping"]

\* one pass of `while True`, from the test of max_batches to time.sleep
RelayPass ==
    /\ relay.pc = "running"
    /\ IF ReachedMax(relay)
       THEN /\ relay' = [relay EXCEPT !.pc = "done"]
            /\ UNCHANGED <<publish, accepted>>
       ELSE \E resp \in ApiResponses :
               CASE resp.kind = "batch" -> Publish(resp.transactions)
                 [] resp.kind = "malformed" ->
                      /\ relay' = [relay EXCEPT !.pc = "done"]
                      /\ UNCHANGED <<publish, accepted>>
                 [] OTHER ->
                      /\ relay' = [relay EXCEPT !.pc = "sleeping"]
                      /\ UNCHANGED <<publish, accepted>>
    /\ UNCHANGED api

\* time.sleep(interval_seconds) returns: the next pass begins
RelayWake ==
    /\ relay.pc = "sleeping"
    /\ relay' = [relay EXCEPT !.pc = "running"]
    /\ publish' = NoPublish
    /\ UNCHANGED <<accepted, api>>

\* except KeyboardInterrupt, raised during the sleep
RelayInterrupt ==
    /\ relay.pc = "sleeping"
    /\ relay' = [relay EXCEPT !.pc = "done"]
    /\ UNCHANGED <<publish, accepted, api>>

RelayNext == RelayStart \/ RelayPass \/ RelayWake \/ RelayInterrupt

SpecRelay == Init /\ [][RelayNext]_vars

-----------------------------------------------------------------------------
(* Properties of the engine, checked under Spec (C7 under SpecConfig) *)

Generated == last.archetype # "none"

Rec == last.record

\* the instants of `list` that satisfy `newer`, counted by position
CountOf(list, newer(_)) == Cardinality({i \in 1..Len(list) : newer(list[i])})

\* C1: the k-th record returned carries counter value k in its transaction_id,
\* so the ids are pairwise distinct and numerically increasing in call order, and
\* the counter is one ahead of the number of records returned
C1_IdsStrictlyIncreasing ==
    /\ transaction_counter = Len(issued) + 1
    /\ \A k \in 1..Len(issued) : ParseId(issued[k]) = k
    /\ \A j, k \in 1..Len(issued) :
          j < k => /\ issued[j] # issued[k]
                   /\ ParseId(issued[j]) < ParseId(issued[k])

\* two records returned, the first by a fraud sampler with a burst and the
\* second by another archetype
C1_Witness ==
    /\ Len(issued) = 2
    /\ Len(call.before) = 0
    /\ \E a \in DOMAIN recent_activity : Len(recent_activity[a]) > MlBurstMin

\* C2 as stated: the tracker call returns the number of recorded instants that
\* are not older than now - 300 s (an instant exactly 300 s old included), plus
\* one for now itself
C2_Original ==
    Generated =>
        call.count = CountOf(call.before, LAMBDA t : t >= call.now - Window) + 1

\* C2 as amended: the tracker call returns the number of recorded instants
\* strictly newer than now - 300 s, plus one for now itself; the account's list
\* then holds exactly that many instants, now last; when every recorded instant
\* is less than 300 s old all of them count, and when the only recorded instant
\* is 300 s old or older the call returns 1
C2_CountsStrictlyNewer ==
    Generated =>
        /\ call.count = CountOf(call.before, LAMBDA t : t > call.now - Window) + 1
        /\ Len(recent_activity[call.account]) = call.count
        /\ recent_activity[call.account][call.count] = call.now
        /\ (\A i \in 1..Len(call.before) : call.now - call.before[i] < Window)
              => call.count = Len(call.before) + 1
        /\ (Len(call.before) = 1 /\ call.now - call.before[1] >= Window)
              => call.count = 1

\* a tracker call that found an instant exactly 300 s old and newer ones
C2_Witness ==
    /\ Generated
    /\ \E i \in 1..Len(call.before) : call.before[i] = call.now - Window
    /\ call.count > MlBurstMin

\* a second call for an account exactly 300 s after its only earlier call
C2_WitnessLate ==
    /\ Generated
    /\ call.before = <<call.now - Window>>
    /\ call.count = 1

\* C3: a money-laundering record for an account with no prior activity has
\* transaction_frequency_5min >= 16 (the 15 burst instants at least, and the
\* real one)
C3_BurstCounted ==
    (last.archetype = "money_laundering" /\ last.fresh)
        => Rec.transaction_frequency_5min >= MlBurstMin + 1

\* C4: every generated record has transaction_frequency_5min >= 1
C4_FrequencyAtLeastOne ==
    Generated => Rec.transaction_frequency_5min >= 1

\* a record with frequency exactly 1 for an account whose earlier activity was
\* pruned by this call
C4_Witness ==
    /\ Generated
    /\ Rec.transaction_frequency_5min = 1
    /\ Len(call.before) > 0

\* C5: a record of any archetype but fee manipulation has a non-negative fee
\* equal to a thousandth of its own total_deposits_vnd
C5_FeeIsThousandthOfDeposits ==
    (Generated /\ last.archetype # "fee_manipulation") =>
        /\ Rec.transaction_fees_vnd.den > 0
        /\ Rec.transaction_fees_vnd.num >= 0
        /\ Rec.transaction_fees_vnd.num * 1000
              = Rec.total_deposits_vnd * Rec.transaction_fees_vnd.den

\* a loan-fraud record with its fee set from its deposits
C5_Witness ==
    /\ last.archetype = "loan_fraud"
    /\ Rec.transaction_fees_vnd.num > 0

\* C6: a fee-manipulation record keeps the sampler's fee, 5% of its amount, and
\* its amount lies in [10000, 100000)
C6_FeeManipulationKeepsFee ==
    last.archetype = "fee_manipulation" =>
        /\ Rec.transaction_fees_vnd.num * 100
              = Rec.transaction_amount_vnd * 5 * Rec.transaction_fees_vnd.den
        /\ Rec.transaction_amount_vnd >= 10000
        /\ Rec.transaction_amount_vnd < 100000

\* a fee-manipulation record at the upper end of the amount range
C6_Witness ==
    /\ last.archetype = "fee_manipulation"
    /\ Rec.transaction_amount_vnd = 99999

\* C7: under rate 0 every record is normal, under rate 1 every record follows a
\* fraud archetype
C7_RateZeroAndOne ==
    Generated =>
        /\ last.rate = 0 => last.archetype = "normal"
        /\ last.rate = 100 => last.archetype \in FraudTypes

\* the second record of a run, normal under rate 0, after the rate was changed
C7_Witness ==
    /\ Len(issued) = 2
    /\ last.rate = 0
    /\ last.archetype = "normal"
    /\ current_config.fraud_injection_rate = 100

\* C16 as stated: the instants of every account's list are in non-decreasing
\* time order
C16_Original ==
    \A a \in DOMAIN recent_activity :
        \A i, j \in 1..Len(recent_activity[a]) :
            i < j => recent_activity[a][i] <= recent_activity[a][j]

\* C16 as amended: every account's list is non-empty and ends with the instant
\* of the account's latest generation, which is its largest; every instant of
\* the list is less than 300 s older than that one
C16_LatestIsLast ==
    \A a \in DOMAIN recent_activity :
        LET list   == recent_activity[a]
            latest == list[Len(list)]
        IN  /\ Len(list) >= 1
            /\ a = call.account => latest = call.now
            /\ \A i \in 1..Len(list) : /\ list[i] <= latest
                                       /\ list[i] > latest - Window

\* a burst's instants recorded behind the instant of an earlier call that they
\* precede in time
C16_Witness ==
    \E a \in DOMAIN recent_activity :
        LET list == recent_activity[a]
        IN  /\ Len(list) > MlBurstMin
            /\ \E i \in 2..Len(list) : list[i] < list[1]

\* C17: across every step the keys of the activity map stay, a new key is the
\* account of the generation that made it, every key is an account of the pool,
\* and the entry of every account but the generation's own is unchanged
C17_KeysOnlyGrow ==
    [][ /\ DOMAIN recent_activity \subseteq DOMAIN recent_activity'
        /\ DOMAIN recent_activity' \ DOMAIN recent_activity \subseteq {call'.account}
        /\ DOMAIN recent_activity' \subseteq Accounts
        /\ Cardinality(DOMAIN recent_activity') <= Cardinality(Accounts)
        /\ \A a \in DOMAIN recent_activity :
              a # call'.account => recent_activity'[a] = recent_activity[a] ]_vars

\* both accounts have an entry, the one generated for first still holding its
\* burst
C17_Witness ==
    /\ DOMAIN recent_activity = Accounts
    /\ Len(issued) = 2
    /\ \E a \in Accounts : /\ a # call.account
                            /\ Len(recent_activity[a]) > MlBurstMin

-----------------------------------------------------------------------------
(* Properties of the delivery shell, checked under SpecShell *)

\* C8: once a stop request has reached a running /stream loop, the loop runs at
\* most one further batch cycle
C8_AtMostOneCycleAfterStop ==
    \A c \in Connections : streams[c].stopped => streams[c].after <= 1

\* C9: every record of a batch was generated under the configuration in force
\* when the batch began, and a stream batch holds batch_size records
C9_BatchUnderOneConfig ==
    packet.by # "none" =>
        /\ \A i \in 1..Len(packet.rates) :
              packet.rates[i] = packet.config.fraud_injection_rate
        /\ packet.by = "stream" => Len(packet.rates) = packet.config.batch_size

\* the documented ranges of the configuration
InRange(cfg) ==
    /\ cfg.frequency_seconds > 0
    /\ cfg.fraud_injection_rate >= 0
    /\ cfg.fraud_injection_rate <= 100
    /\ cfg.batch_size >= 1

\* C10: the configuration in force is always within the documented ranges
C10_ConfigInRange == InRange(current_config)

\* C11: a request for more than 1000 records is answered 400 and leaves the
\* counter and the activity map as they were; a request for n records,
\* 0 <= n <= 1000, is answered with exactly n records and moves the counter by n
C11_BatchLimit ==
    [][ (packet' # packet /\ packet'.by = "transactions") =>
          IF packet'.asked > BatchLimit
          THEN /\ packet'.status = 400
               /\ packet'.rates = <<>>
               /\ UNCHANGED <<transaction_counter, recent_activity, issued>>
          ELSE /\ packet'.status = 200
               /\ Len(packet'.rates) = packet'.asked
               /\ Len(issued') = Len(issued) + packet'.asked
               /\ transaction_counter' = transaction_counter + packet'.asked ]_vars

\* a request for 1001 records rejected after two records were generated
C11_Witness ==
    /\ packet.by = "transactions"
    /\ packet.asked = BatchLimit + 1
    /\ packet.status = 400
    /\ Len(issued) = 2

\* C15: whatever handlers run side by side, the records they return carry
\* pairwise distinct ids, one per counter value, and the latest tracker call
\* counted the account's list as it found it and left its own instant last
C15_CallsSerialized ==
    /\ Len(issued) = transaction_counter - 1
    /\ \A j, k \in 1..Len(issued) : j # k => issued[j] # issued[k]
    /\ Generated =>
          /\ call.count = CountOf(call.before, LAMBDA t : t > call.now - Window) + 1
          /\ recent_activity[call.account]
                = SelectSeq(call.before, LAMBDA t : t > call.now - Window)
                    \o <<call.now>>

\* two /stream loops suspended at their yields and a third record generated by
\* one more handler
C15_Witness ==
    /\ \A c \in Connections : streams[c].pc = "waiting"
    /\ Len(issued) = 3
    /\ packet.by = "transactions"

\* C18: a /stream loop that ended at its own test of the flag had been reached
\* by a stop request
C18_LoopEndsOnlyOnStop ==
    \A c \in Connections : streams[c].pc = "done" => streams[c].stopped

\* C19: POST /start with the flag set is answered 400 and changes neither the
\* flag nor the configuration, the counter or the activity map; with the flag
\* clear it sets the flag; POST /stop leaves the flag clear whatever it was
C19_StartStop ==
    [][ /\ (packet' # packet /\ packet'.by = "start") =>
              IF is_streaming
              THEN /\ packet'.status = 400
                   /\ UNCHANGED <<is_streaming, current_config,
                                  transaction_counter, recent_activity>>
              ELSE /\ packet'.status = 200
                   /\ is_streaming'
        /\ (packet' # packet /\ packet'.by = "stop") =>
              /\ packet'.status = 200
              /\ ~is_streaming'
              /\ UNCHANGED <<current_config, transaction_counter,
                             recent_activity>> ]_vars

\* a start request rejected while a /stream loop is running
C19_Witness ==
    /\ packet.by = "start"
    /\ packet.status = 400
    /\ is_streaming
    /\ \E c \in Connections : streams[c].pc = "waiting"

-----------------------------------------------------------------------------
(* Properties of the export script, checked under SpecExport *)

\* C12: every exported record has is_fraud exactly when its fraud_type is not
\* None; a normal record has is_fraud false and is written with fraud_type
\* "normal"; a record of a fraud archetype has is_fraud true and carries, and is
\* written with, the name of the archetype that was selected
C12_LabelsAgree ==
    Generated =>
        /\ row.is_fraud = (row.fraud_type # None)
        /\ row.written.is_fraud = row.is_fraud
        /\ row.written.transaction_id = Rec.transaction_id
        /\ last.archetype = "normal" =>
              /\ ~row.is_fraud
              /\ row.written.fraud_type = "normal"
        /\ last.archetype \in FraudTypes =>
              /\ row.is_fraud
              /\ row.fraud_type = last.archetype
              /\ row.written.fraud_type = last.archetype

\* a normal row written after a fraud row
C12_Witness ==
    /\ Len(issued) = 2
    /\ last.archetype = "normal"
    /\ row.written.fraud_type = "normal"
    /\ \E a \in DOMAIN recent_activity : Len(recent_activity[a]) > FmBurstMin

-----------------------------------------------------------------------------
(* Properties of the relay, checked under SpecRelay *)

\* C13: every record handed to put_records holds each field of its transaction
\* unchanged and the four flags: high amount exactly above 300,000,000, off
\* hours exactly at hours 1, 2, 3, 22, 23, 24, suspicious device exactly for a
\* DEV_NEW_ device, high frequency exactly above 10; its partition key is the
\* transaction's own account_id
C13_EnrichmentFlags ==
    /\ Len(publish.records) = Len(publish.sent)
    /\ \A i \in 1..Len(publish.records) :
          LET t == publish.sent[i]
              d == publish.records[i].Data
          IN  /\ \A k \in DOMAIN t : k \in DOMAIN d /\ d[k] = t[k]
              /\ d["high_amount_flag"] = (t.transaction_amount_vnd > 300000000)
              /\ d["off_hours_flag"] = (t.transaction_hour \in {1, 2, 3, 22, 23, 24})
              /\ d["suspicious_device_flag"]
                    = (Len(t.device_id) = 3 /\ t.device_id[2] = "NEW")
              /\ d["high_frequency_flag"] = (t.transaction_frequency_5min > 10)
              /\ publish.records[i].PartitionKey = t.account_id

\* a batch of two records of different accounts, one on the thresholds and one
\* just above them
C13_Witness ==
    /\ Len(publish.records) = 2
    /\ publish.sent[1].transaction_amount_vnd = HighAmount
    /\ publish.sent[2].transaction_amount_vnd = HighAmount + 1
    /\ ~publish.records[1].Data["high_frequency_flag"]
    /\ publish.records[2].Data["off_hours_flag"]
    /\ publish.records[1].PartitionKey # publish.records[2].PartitionKey

\* a publish that raised, or that was answered with every record failed
PublishFailed(p) ==
    \/ p.outcome = "raised"
    \/ p.outcome = "answered" /\ p.failed = Len(p.sent)

C20_BatchCountWithinMax ==
    (relay.max_batches.given /\ relay.max_batches.value >= 0)
        => relay.batch_count <= relay.max_batches.value

\* C21: total_transactions never exceeds the number of records the external
\* stream has accepted
C21_TotalWithinAccepted == relay.total_transactions <= accepted

====
